---- MODULE Spec2Model ----
(***************************************************************************)
(* The three chat scripts of the repository (chatbot.py, aibot.py, bot.py) *)
(* as one state machine.  A Streamlit script is re-executed from the top   *)
(* for every user event; the state that survives from one execution to the *)
(* next is st.session_state and the widget values.  One action below is    *)
(* one execution of the script for one event; the execution that handles a *)
(* submitted text is split at its calls to the outside (client             *)
(* construction, the outbound model call, each streamed fragment), because *)
(* each of them can fail or deliver an input.                              *)
(***************************************************************************)
EXTENDS Integers, Sequences, FiniteSets, TLC

VARIABLES
    variant,            \* which script this session runs
    chat_history,       \* st.session_state.chat_history
    selected_provider,  \* st.session_state.selected_provider (bot.py)
    selected_model,     \* st.session_state.selected_model (bot.py), model_option (aibot.py)
    temperature,        \* the temperature slider, in tenths
    max_tokens,         \* the max-tokens number input
    download,           \* the export button as rendered by the last execution
    pc,                 \* where the current execution stands
    event,              \* the event the current (or last) execution handles
    user_prompt,        \* what st.chat_input returned to this execution
    llm,                \* the client handle of this execution
    cred,               \* what os.getenv returned to get_llm_instance
    messages,           \* the input of the outbound call in flight
    fragments,          \* the fragments the stream has produced so far
    full_response,      \* the accumulator of the streaming loop
    errors,             \* the errors this execution surfaced
    run_start,          \* chat_history as this execution found it
    calls,              \* outbound calls issued by this execution
    turns_ok,           \* turns completed since the history was last empty
    turns_failed        \* turns failed since the history was last empty

vars == <<variant, chat_history, selected_provider, selected_model, temperature,
          max_tokens, download, pc, event, user_prompt, llm, cred, messages,
          fragments, full_response, errors, run_start, calls, turns_ok,
          turns_failed>>

config_vars == <<selected_provider, selected_model, temperature, max_tokens>>

-----------------------------------------------------------------------------
(* Bounds of the model *)

\* the longest chat_history a new turn may still be started on is MaxHist - 1
MaxHist == 4
\* the most fragments one stream produces
MaxFrags == 2

\* the texts a user submits ("" is st.chat_input returning nothing)
Texts == {"Hello"}
\* the fragments a provider streams
Fragments == {"Hi", " there!"}
\* the replies the non-streaming call returns
Replies == {"Hi there!", "Hi"}

Variants == {"chatbot", "aibot", "bot"}

-----------------------------------------------------------------------------
(* Static configuration *)

NoKey == [required |-> FALSE, name |-> ""]
Key(n) == [required |-> TRUE, name |-> n]

PROVIDER_CONFIG ==
    [p \in {"OpenAI", "Google Gemini", "Groq", "Ollama"} |->
        CASE p = "OpenAI" ->
                [models |-> <<"gpt-4o", "gpt-4o-mini", "gpt-3.5-turbo", "gpt-4-turbo">>,
                 import_path |-> "langchain_openai",
                 class_name |-> "ChatOpenAI",
                 env_key |-> Key("OPENAI_API_KEY")]
          [] p = "Google Gemini" ->
                [models |-> <<"gemini-2.5-flash-lite", "gemini-2.5-flash", "gemini-2.5-pro">>,
                 import_path |-> "langchain_google_genai",
                 class_name |-> "ChatGoogleGenerativeAI",
                 env_key |-> Key("GOOGLE_API_KEY")]
          [] p = "Groq" ->
                [models |-> <<"llama-3.1-8b-instant", "llama-3.3-70b-versatile", "mixtral-8x7b-32768">>,
                 import_path |-> "langchain_groq",
                 class_name |-> "ChatGroq",
                 env_key |-> Key("GROQ_API_KEY")]
          [] p = "Ollama" ->
                [models |-> <<"llama3.3", "gemma3", "mistral-small3.2", "phi4">>,
                 import_path |-> "langchain_ollama",
                 class_name |-> "ChatOllama",
                 env_key |-> NoKey]]

Providers == DOMAIN PROVIDER_CONFIG

\* the options of the model selectbox of aibot.py
AibotModels == <<"llama-3.1-8b-instant", "llama-3.1-70b-versatile", "mixtral-8x7b-32768">>

\* the model chatbot.py is fixed to
ChatbotModel == "llama-3.1-8b-instant"

\* the positions of the sliders the model lets the user choose (tenths; tokens)
TemperatureChoices == {7, 0}
MaxTokensChoices == {1024, 100}
DefaultTemperature == 7
DefaultMaxTokens == 1024

Range(s) == {s[i] : i \in 1..Len(s)}

\* the model selectbox still offering the default provider's list
ModelsOf_Stale(v, p) ==
    IF v = "bot" THEN PROVIDER_CONFIG["Groq"].models
    ELSE IF v = "aibot" THEN AibotModels
    ELSE <<ChatbotModel>>

\* the options of the model selectbox
ModelsOf(v, p) ==
    CASE v = "bot" -> PROVIDER_CONFIG[p].models
      [] v = "aibot" -> AibotModels
      [] OTHER -> <<ChatbotModel>>

-----------------------------------------------------------------------------
(* Values *)

Msg(r, c) == [role |-> r, content |-> c]

\* the system entry each script puts in front of the history it sends
SystemPrompt(v) ==
    IF v = "chatbot"
    THEN Msg("system", "You are a helpful assistant")
    ELSE Msg("system", "You are a helpful, friendly, and knowledgeable AI assistant. Provide clear, accurate, and engaging responses.")

\* os.getenv: the variable is unset, or set to a (possibly empty) string
EnvUnset == [set |-> FALSE, value |-> ""]
EnvSet(s) == [set |-> TRUE, value |-> s]
EnvValues == {EnvUnset, EnvSet(""), EnvSet("sk-1")}
\* no credential was read
NoRead == [read |-> FALSE, name |-> "", got |-> EnvUnset]

\* Python truthiness of what os.getenv returns: None and "" are falsy
EnvTruthy(e) == e.set /\ e.value # ""

\* the guard on the chat input left out
PromptTruthy_Always(p) == TRUE

\* Python truthiness of what st.chat_input returns: None and "" are falsy
PromptTruthy(p) == p # ""

None == [kind |-> "None"]

-----------------------------------------------------------------------------
(* bot.py: get_llm_instance *)

\* an unlisted model name replaced by the provider's first model
ClientParams_ListedOnly(provider, model_name, temp, mt) ==
    [model |-> IF \E i \in 1..Len(PROVIDER_CONFIG[provider].models) :
                      PROVIDER_CONFIG[provider].models[i] = model_name
               THEN model_name
               ELSE PROVIDER_CONFIG[provider].models[1],
     temperature |-> temp,
     max_tokens |-> IF provider # "Ollama"
                    THEN [given |-> TRUE, value |-> mt]
                    ELSE [given |-> FALSE, value |-> 0]]

\* common_params of get_llm_instance
ClientParams(provider, model_name, temp, mt) ==
    [model |-> model_name,
     temperature |-> temp,
     max_tokens |-> IF provider # "Ollama"
                    THEN [given |-> TRUE, value |-> mt]
                    ELSE [given |-> FALSE, value |-> 0]]

\* the credential check left out: the constructor is reached without a key
CredentialMissing_Skipped(config, env) == FALSE

\* the credential check: a key is required and os.getenv gave nothing truthy
CredentialMissing(config, env) == config.env_key.required /\ ~EnvTruthy(env)

\* the variable the "not found" error names
MissingKeyError(config) ==
    <<[kind |-> "missing_key", name |-> config.env_key.name],
      [kind |-> "info_add_key", name |-> ".env"]>>

\* env is what os.getenv returns for the provider's variable, outcome is what
\* the import and the constructor do: "ok", "import_error" or "init_error"
get_llm_instance(provider, model_name, temp, mt, env, outcome) ==
    IF provider \notin DOMAIN PROVIDER_CONFIG
    THEN [llm |-> None,
          errors |-> <<[kind |-> "init_error", name |-> provider]>>,
          cred |-> NoRead]
    ELSE LET config == PROVIDER_CONFIG[provider]
             read == IF config.env_key.required
                     THEN [read |-> TRUE, name |-> config.env_key.name, got |-> env]
                     ELSE NoRead
         IN  IF CredentialMissing(config, env)
             THEN [llm |-> None, errors |-> MissingKeyError(config), cred |-> read]
             ELSE IF outcome = "import_error"
             THEN [llm |-> None,
                   errors |-> <<[kind |-> "install", name |-> config.import_path]>>,
                   cred |-> read]
             ELSE IF outcome = "init_error"
             THEN [llm |-> None,
                   errors |-> <<[kind |-> "init_error", name |-> provider]>>,
                   cred |-> read]
             ELSE [llm |-> [kind |-> "client",
                            class_name |-> config.class_name,
                            params |-> ClientParams(provider, model_name, temp, mt)],
                   errors |-> <<>>,
                   cred |-> read]

Outcomes == {"ok", "import_error", "init_error"}

\* aibot.py: get_llm(model_option, temperature); chatbot.py: the module-level client
ChatGroq(model_name, temp) ==
    [kind |-> "client",
     class_name |-> "ChatGroq",
     params |-> [model |-> model_name,
                 temperature |-> temp,
                 max_tokens |-> [given |-> FALSE, value |-> 0]]]

\* the client an execution holds before any text is handled
ScriptLlm(v, model_name, temp) ==
    IF v = "bot" THEN None ELSE ChatGroq(model_name, temp)

\* Python truthiness of the handle get_llm_instance returned
LlmTruthy(l) == l # None

-----------------------------------------------------------------------------
(* The conversation store *)

\* the system entry folded into the stored history with the first user message
AppendUser_WithSystem(h, text) ==
    IF h = <<>>
    THEN <<Msg("system", "You are a helpful assistant"), Msg("user", text)>>
    ELSE Append(h, Msg("user", text))

AppendUser(h, text) == Append(h, Msg("user", text))

\* the reply stored twice
AppendAssistant_Twice(h, content) ==
    Append(Append(h, Msg("assistant", content)), Msg("assistant", content))

\* the reply shown but not stored
AppendAssistant_NotStored(h, content) == h

AppendAssistant(h, content) == Append(h, Msg("assistant", content))

\* the click handled without resetting the history
ClearHistory_Kept(h) == h

ClearHistory(h) == <<>>

\* only the text just submitted is sent, without the earlier turns
BuildMessages_LastOnly(v, h) == <<SystemPrompt(v), h[Len(h)]>>

\* the input of llm.stream / llm.invoke
BuildMessages(v, h) == <<SystemPrompt(v)>> \o h

\* full_response = part: every fragment overwrites the ones before it
Accumulate_Overwrite(full, part) == part

\* full_response += part
Accumulate(full, part) == full \o part

\* f"{'User' if msg['role'] == 'user' else 'Assistant'}: {msg['content']}"
FormatMsg(msg) ==
    (IF msg.role = "user" THEN "User" ELSE "Assistant") \o ": " \o msg.content

\* sep.join(parts) of Python
RECURSIVE Join(_, _)
Join(sep, parts) ==
    IF parts = <<>> THEN ""
    ELSE IF Len(parts) = 1 THEN parts[1]
    ELSE parts[1] \o sep \o Join(sep, Tail(parts))

\* the entries joined by a single line break
chat_text_OneNewline(h) == Join("\n", [i \in 1..Len(h) |-> FormatMsg(h[i])])

chat_text(h) == Join("\n\n", [i \in 1..Len(h) |-> FormatMsg(h[i])])

Disabled == [enabled |-> FALSE, data |-> ""]

\* the export button of the sidebar: a download of chat_text when the history
\* is non-empty, a disabled placeholder otherwise
ExportButton(h) ==
    IF h # <<>> THEN [enabled |-> TRUE, data |-> chat_text(h)] ELSE Disabled

\* what the sidebar renders; chatbot.py has no sidebar
Sidebar(v, h) == IF v = "chatbot" THEN Disabled ELSE ExportButton(h)

-----------------------------------------------------------------------------
(* The state after the first execution of the script *)

Init ==
    /\ variant \in Variants
    /\ chat_history = <<>>
    /\ selected_provider = "Groq"
    /\ selected_model = ModelsOf(variant, "Groq")[1]
    /\ temperature = IF variant = "chatbot" THEN 0 ELSE DefaultTemperature
    /\ max_tokens = DefaultMaxTokens
    /\ download = Disabled
    /\ pc = "idle"
    /\ event = "start"
    /\ user_prompt = ""
    /\ llm = ScriptLlm(variant, selected_model, temperature)
    /\ cred = NoRead
    /\ messages = <<>>
    /\ fragments = <<>>
    /\ full_response = ""
    /\ errors = <<>>
    /\ run_start = <<>>
    /\ calls = 0
    /\ turns_ok = 0
    /\ turns_failed = 0

\* every execution starts from the top: the locals of the last one are gone
FreshRun(ev, prompt, h, model_name, temp) ==
    /\ event' = ev
    /\ user_prompt' = prompt
    /\ llm' = ScriptLlm(variant, model_name, temp)
    /\ cred' = NoRead
    /\ messages' = <<>>
    /\ fragments' = <<>>
    /\ full_response' = ""
    /\ errors' = <<>>
    /\ run_start' = h
    /\ calls' = 0

-----------------------------------------------------------------------------
(* Executions that handle a sidebar event *)

\* the model of the provider left behind kept as the selected model
ModelOnProviderChange_Kept(p) == selected_model

\* st.session_state.selected_model after the provider changed to p
ModelOnProviderChange(p) == PROVIDER_CONFIG[p].models[1]

\* the conversation dropped when another provider is picked
SelectProvider_ResetsChat(p) ==
    /\ pc = "idle"
    /\ variant = "bot"
    /\ p # selected_provider
    /\ selected_provider' = p
    /\ selected_model' = ModelOnProviderChange(p)
    /\ chat_history' = <<>>
    /\ download' = Sidebar(variant, <<>>)
    /\ FreshRun("config", "", <<>>, selected_model', temperature)
    /\ UNCHANGED <<variant, temperature, max_tokens, pc, turns_ok, turns_failed>>

\* bot.py: another provider is picked; the model becomes its first one and the
\* script reruns
SelectProvider(p) ==
    /\ pc = "idle"
    /\ variant = "bot"
    /\ p # selected_provider
    /\ selected_provider' = p
    /\ selected_model' = ModelOnProviderChange(p)
    /\ download' = Sidebar(variant, chat_history)
    /\ FreshRun("config", "", chat_history, selected_model', temperature)
    /\ UNCHANGED <<variant, chat_history, temperature, max_tokens, pc,
                   turns_ok, turns_failed>>

\* bot.py, aibot.py: another model of the list is picked
SelectModel(m) ==
    /\ pc = "idle"
    /\ variant \in {"bot", "aibot"}
    /\ m \in Range(ModelsOf(variant, selected_provider))
    /\ m # selected_model
    /\ selected_model' = m
    /\ download' = Sidebar(variant, chat_history)
    /\ FreshRun("config", "", chat_history, m, temperature)
    /\ UNCHANGED <<variant, chat_history, selected_provider, temperature,
                   max_tokens, pc, turns_ok, turns_failed>>

\* bot.py, aibot.py: the temperature slider is moved
SetTemperature(t) ==
    /\ pc = "idle"
    /\ variant \in {"bot", "aibot"}
    /\ t # temperature
    /\ temperature' = t
    /\ download' = Sidebar(variant, chat_history)
    /\ FreshRun("config", "", chat_history, selected_model, t)
    /\ UNCHANGED <<variant, chat_history, selected_provider, selected_model,
                   max_tokens, pc, turns_ok, turns_failed>>

\* bot.py, aibot.py: the max-tokens input is changed
SetMaxTokens(n) ==
    /\ pc = "idle"
    /\ variant \in {"bot", "aibot"}
    /\ n # max_tokens
    /\ max_tokens' = n
    /\ download' = Sidebar(variant, chat_history)
    /\ FreshRun("config", "", chat_history, selected_model, temperature)
    /\ UNCHANGED <<variant, chat_history, selected_provider, selected_model,
                   temperature, pc, turns_ok, turns_failed>>

\* The export button the execution of a Clear click leaves on the page: bot.py
\* empties the history before it renders the button, aibot.py renders the
\* button first and empties the history at the end of the sidebar
SidebarOnClear(v, h) ==
    IF v = "bot" THEN Sidebar(v, ClearHistory(h)) ELSE Sidebar(v, h)

\* bot.py, aibot.py: Clear Chat is clicked
ClearChat ==
    /\ pc = "idle"
    /\ variant \in {"bot", "aibot"}
    /\ chat_history' = ClearHistory(chat_history)
    /\ download' = SidebarOnClear(variant, chat_history)
    /\ FreshRun("clear", "", chat_history, selected_model, temperature)
    /\ turns_ok' = 0
    /\ turns_failed' = 0
    /\ UNCHANGED <<variant, config_vars, pc>>

-----------------------------------------------------------------------------
(* The execution that handles the chat input *)

\* The script runs with prompt as the value of st.chat_input: the sidebar is
\* rendered from the history as it is, then a truthy prompt is appended as
\* the user message and the reply is generated
RunScript(prompt) ==
    /\ pc = "idle"
    /\ download' = Sidebar(variant, chat_history)
    /\ IF PromptTruthy(prompt)
       THEN /\ Len(chat_history) + 2 <= MaxHist
            /\ chat_history' = AppendUser(chat_history, prompt)
            /\ pc' = IF variant = "bot" THEN "resolve" ELSE "call"
            /\ FreshRun("submit", prompt, chat_history, selected_model, temperature)
       ELSE /\ chat_history' = chat_history
            /\ pc' = "idle"
            /\ FreshRun("rerun", prompt, chat_history, selected_model, temperature)
    /\ UNCHANGED <<variant, config_vars, turns_ok, turns_failed>>

\* bot.py: llm = get_llm_instance(...); without a handle the turn ends with
\* the placeholder's error
Resolve(env, outcome) ==
    /\ pc = "resolve"
    /\ LET r == get_llm_instance(selected_provider, selected_model, temperature,
                                 max_tokens, env, outcome)
       IN  /\ llm' = r.llm
           /\ cred' = r.cred
           /\ IF LlmTruthy(r.llm)
              THEN /\ pc' = "call"
                   /\ errors' = r.errors
                   /\ turns_failed' = turns_failed
              ELSE /\ pc' = "idle"
                   /\ errors' = r.errors \o <<[kind |-> "llm_none", name |-> ""]>>
                   /\ turns_failed' = turns_failed + 1
    /\ UNCHANGED <<variant, chat_history, config_vars, download, event,
                   user_prompt, messages, fragments, full_response, run_start,
                   calls, turns_ok>>

\* the outbound call is issued: llm.stream (aibot.py, bot.py) or llm.invoke
\* (chatbot.py) on the system entry followed by the history
Call ==
    /\ pc = "call"
    /\ messages' = BuildMessages(variant, chat_history)
    /\ calls' = calls + 1
    /\ pc' = IF variant = "chatbot" THEN "invoke" ELSE "stream"
    /\ UNCHANGED <<variant, chat_history, config_vars, download, event,
                   user_prompt, llm, cred, fragments, full_response, errors,
                   run_start, turns_ok, turns_failed>>

\* aibot.py, bot.py: the stream produces one more fragment
Chunk(part) ==
    /\ pc = "stream"
    /\ Len(fragments) < MaxFrags
    /\ fragments' = Append(fragments, part)
    /\ full_response' = Accumulate(full_response, part)
    /\ UNCHANGED <<variant, chat_history, config_vars, download, pc, event,
                   user_prompt, llm, cred, messages, errors, run_start, calls,
                   turns_ok, turns_failed>>

\* aibot.py, bot.py: the stream is exhausted; the reply is stored
StreamEnd ==
    /\ pc = "stream"
    /\ chat_history' = AppendAssistant(chat_history, full_response)
    /\ pc' = "idle"
    /\ messages' = <<>>
    /\ turns_ok' = turns_ok + 1
    /\ UNCHANGED <<variant, config_vars, download, event, user_prompt, llm,
                   cred, fragments, full_response, errors, run_start, calls,
                   turns_failed>>

\* chatbot.py: llm.invoke returns; response.content is stored
InvokeReturn(content) ==
    /\ pc = "invoke"
    /\ full_response' = content
    /\ chat_history' = AppendAssistant(chat_history, content)
    /\ pc' = "idle"
    /\ messages' = <<>>
    /\ turns_ok' = turns_ok + 1
    /\ UNCHANGED <<variant, config_vars, download, event, user_prompt, llm,
                   cred, fragments, errors, run_start, calls, turns_failed>>

\* the user message of the failed turn taken back out of the history
HistoryOnFailure_Rollback(h, full) == SubSeq(h, 1, Len(h) - 1)

\* the fragments received so far stored as the reply of the failed call
HistoryOnFailure_Partial(h, full) ==
    IF full # "" THEN Append(h, Msg("assistant", full)) ELSE h

\* what the failure of the outbound call leaves in chat_history: the except
\* branch of aibot.py and bot.py only reports, and chatbot.py ends the
\* execution with the exception
HistoryOnFailure(h, full) == h

\* the error kept as a state of its own that no execution leaves
AfterFailure_Sticky == "error"

\* the failed call issued again by the same execution
AfterFailure_Retry == "call"

\* where the execution stands after the except branch: it has reported the
\* error and the script runs on to its end
AfterFailure == "idle"

\* the outbound call raises, before or between fragments
CallFail ==
    /\ pc \in {"stream", "invoke"}
    /\ chat_history' = HistoryOnFailure(chat_history, full_response)
    /\ errors' = errors \o
          <<[kind |-> IF variant = "chatbot" THEN "uncaught" ELSE "exception",
             name |-> ""]>>
    /\ pc' = AfterFailure
    /\ messages' = <<>>
    /\ turns_failed' = turns_failed + 1
    /\ UNCHANGED <<variant, config_vars, download, event, user_prompt, llm,
                   cred, fragments, full_response, run_start, calls, turns_ok>>

-----------------------------------------------------------------------------

Next ==
    \/ \E p \in Providers : SelectProvider(p)
    \/ \E m \in Range(ModelsOf(variant, selected_provider)) : SelectModel(m)
    \/ \E t \in TemperatureChoices : SetTemperature(t)
    \/ \E n \in MaxTokensChoices : SetMaxTokens(n)
    \/ ClearChat
    \/ \E prompt \in Texts \cup {""} : RunScript(prompt)
    \/ \E env \in EnvValues, outcome \in Outcomes : Resolve(env, outcome)
    \/ Call
    \/ \E part \in Fragments : Chunk(part)
    \/ StreamEnd
    \/ \E content \in Replies : InvokeReturn(content)
    \/ CallFail

Spec == Init /\ [][Next]_vars

-----------------------------------------------------------------------------
(* get_llm_instance on its own: called with any provider and model name *)

\* the provider names and model names the function is called with: the listed
\* ones, a provider that is not in PROVIDER_CONFIG and a model no provider lists
ProviderNames == Providers \cup {"Anthropic"}
ModelNames ==
    UNION {Range(PROVIDER_CONFIG[p].models) : p \in Providers} \cup {"no-such-model"}

InitDispatch ==
    /\ variant = "bot"
    /\ chat_history = <<>>
    /\ selected_provider \in ProviderNames
    /\ selected_model \in ModelNames
    /\ temperature \in TemperatureChoices
    /\ max_tokens \in MaxTokensChoices
    /\ download = Disabled
    /\ pc = "args"
    /\ event = "start"
    /\ user_prompt = ""
    /\ llm = None
    /\ cred = NoRead
    /\ messages = <<>>
    /\ fragments = <<>>
    /\ full_response = ""
    /\ errors = <<>>
    /\ run_start = <<>>
    /\ calls = 0
    /\ turns_ok = 0
    /\ turns_failed = 0

\* get_llm_instance(provider, model_name, temperature, max_tokens) returns
DispatchCall(env, outcome) ==
    /\ pc = "args"
    /\ LET r == get_llm_instance(selected_provider, selected_model, temperature,
                                 max_tokens, env, outcome)
       IN  /\ llm' = r.llm
           /\ cred' = r.cred
           /\ errors' = r.errors
    /\ pc' = "returned"
    /\ UNCHANGED <<variant, chat_history, config_vars, download, event,
                   user_prompt, messages, fragments, full_response, run_start,
                   calls, turns_ok, turns_failed>>

NextDispatch == \E env \in EnvValues, outcome \in Outcomes : DispatchCall(env, outcome)

SpecDispatch == InitDispatch /\ [][NextDispatch]_vars

-----------------------------------------------------------------------------
(* Properties *)

IsTurn == event = "submit"

\* the history a turn leaves before its outbound call: what the execution
\* found, followed by the submitted text as a user message
BeforeCall == Append(run_start, [role |-> "user", content |-> user_prompt])

\* the outbound call of this turn failed
CallFailed ==
    /\ pc = "idle"
    /\ IsTurn
    /\ calls = 1
    /\ errors # <<>>
    /\ errors[Len(errors)].kind \in {"exception", "uncaught"}

\* the turn of this execution completed
TurnDone == pc = "idle" /\ IsTurn /\ calls = 1 /\ errors = <<>>

Alternates(h) ==
    \A i \in 1..Len(h) :
        h[i].role = IF i % 2 = 1 THEN "user" ELSE "assistant"

\* C1: in every variant, after N turns that all succeeded on a history that
\* started empty, chat_history has exactly 2N entries, alternating user,
\* assistant, starting with user.
C1_TwoEntriesPerTurn ==
    (pc = "idle" /\ turns_failed = 0) =>
        /\ Len(chat_history) = 2 * turns_ok
        /\ Alternates(chat_history)

C1_Witness ==
    /\ pc = "idle"
    /\ turns_failed = 0
    /\ turns_ok = 2
    /\ Len(chat_history) = 4

\* C2: when the outbound call of a turn fails, before the first fragment or
\* after some, chat_history is what it was right before the call: its last
\* entry is the user message of the turn and no assistant message was added.
C2_FailedCallKeepsHistory ==
    CallFailed =>
        /\ chat_history = BeforeCall
        /\ chat_history[Len(chat_history)] = [role |-> "user", content |-> user_prompt]
        /\ Len(chat_history) = Len(run_start) + 1

C2_Witness == CallFailed /\ fragments # <<>> /\ full_response # ""

\* get_llm_instance found the credential variable of the provider unset
CredentialUnset == variant = "bot" /\ IsTurn /\ cred.read /\ ~cred.got.set

\* C3 (as claimed): a turn attempted while the provider's credential is unset
\* leaves chat_history as long as it was before the text was submitted.
C3_ConfigErrorNoStateChange ==
    (pc = "idle" /\ CredentialUnset) => Len(chat_history) = Len(run_start)

\* the variable each provider needs, as the provider table of bot.py lists it
ExpectedKey(p) ==
    CASE p = "OpenAI" -> "OPENAI_API_KEY"
      [] p = "Google Gemini" -> "GOOGLE_API_KEY"
      [] p = "Groq" -> "GROQ_API_KEY"
      [] OTHER -> ""

\* C4: with the credential variable of OpenAI, Google Gemini or Groq absent,
\* get_llm_instance returns no handle, its first error names that variable and
\* the turn issues no outbound call; for Ollama no variable is read and no
\* missing-variable error is ever reported.
C4_MissingCredential ==
    /\ CredentialUnset =>
          /\ selected_provider \in {"OpenAI", "Google Gemini", "Groq"}
          /\ llm = None
          /\ pc = "idle"
          /\ calls = 0
          /\ messages = <<>>
          /\ errors # <<>>
          /\ errors[1] = [kind |-> "missing_key", name |-> ExpectedKey(selected_provider)]
          /\ cred.name = ExpectedKey(selected_provider)
    /\ (variant = "bot" /\ selected_provider = "Ollama") =>
          /\ ~cred.read
          /\ \A i \in 1..Len(errors) : errors[i].kind # "missing_key"

C4_Witness ==
    /\ CredentialUnset
    /\ selected_provider = "OpenAI"
    /\ errors # <<>>
    /\ llm = None

C6_PayloadIsSystemPlusHistory ==
    pc \in {"stream", "invoke"} =>
        /\ Len(messages) = Len(chat_history) + 1
        /\ messages[1].role = "system"
        /\ \A i \in 1..Len(chat_history) : messages[i + 1] = chat_history[i]
        /\ \A i \in 1..Len(run_start) : messages[i + 1] = run_start[i]
        /\ messages[Len(messages)] = [role |-> "user", content |-> user_prompt]

C6_Witness ==
    /\ pc \in {"stream", "invoke"}
    /\ Len(run_start) = 2
    /\ Len(messages) = 4

\* C7: chat_history never holds an entry of role system, in any variant.
C7_NoSystemInHistory ==
    \A i \in 1..Len(chat_history) : chat_history[i].role # "system"

C7_Witness ==
    /\ TurnDone
    /\ Len(chat_history) = 4
    /\ variant = "chatbot"

\* the fragments in the order received, as one text
RECURSIVE InOrder(_)
InOrder(fs) == IF fs = <<>> THEN "" ELSE fs[1] \o InOrder(Tail(fs))

\* C8: a streamed turn that succeeds (aibot.py, bot.py) appends exactly one
\* message, an assistant message whose content is the fragments of the stream
\* concatenated in the order received.
C8_ReplyIsFragmentsInOrder ==
    (TurnDone /\ variant \in {"aibot", "bot"}) =>
        /\ chat_history = Append(BeforeCall,
                                 [role |-> "assistant", content |-> InOrder(fragments)])
        /\ Len(chat_history) = Len(run_start) + 2

C8_Witness ==
    /\ TurnDone
    /\ variant = "bot"
    /\ fragments = <<"Hi", " there!">>

\* C9: the execution of a Clear click leaves chat_history empty whatever it
\* held before, also when it was empty already (a second clear in a row).
C9_ClearEmpties == event = "clear" => chat_history = <<>>

C9_Witness == event = "clear" /\ Len(run_start) = 4 /\ chat_history = <<>>

\* the history the export button on the page was rendered from: the history
\* the execution found, except in bot.py on a Clear click, which empties it
\* before the button is rendered
Exported ==
    IF variant = "bot" /\ event = "clear" THEN <<>> ELSE run_start

RoleLabel(r) == IF r = "user" THEN "User" ELSE "Assistant"

\* the rendering the claim describes, built up entry by entry
RECURSIVE Rendering(_)
Rendering(h) ==
    IF h = <<>> THEN ""
    ELSE LET n == Len(h)
             line == RoleLabel(h[n].role) \o ": " \o h[n].content
         IN  IF n = 1 THEN line
             ELSE Rendering(SubSeq(h, 1, n - 1)) \o "\n\n" \o line

HelloExample ==
    <<[role |-> "user", content |-> "Hello"],
      [role |-> "assistant", content |-> "Hi there!"]>>

C11_ExportIsCurrent ==
    (pc = "idle" /\ download.enabled) =>
        /\ chat_history # <<>>
        /\ download.data = Rendering(chat_history)

\* the first model each provider lists in bot.py
FirstListed(p) ==
    CASE p = "OpenAI" -> "gpt-4o"
      [] p = "Google Gemini" -> "gemini-2.5-flash-lite"
      [] p = "Groq" -> "llama-3.1-8b-instant"
      [] OTHER -> "llama3.3"

\* C12: in bot.py, every step that changes the selected provider leaves the
\* selected model at the new provider's first listed model, whatever model
\* was chosen under that provider before.
C12_ProviderChangeResetsModel ==
    [][selected_provider' # selected_provider =>
          selected_model' = FirstListed(selected_provider')]_vars

\* back on the default provider, on its first model, by a provider change
C12_Witness ==
    /\ variant = "bot"
    /\ event = "config"
    /\ selected_provider = "Groq"
    /\ selected_model = "llama-3.1-8b-instant"
    /\ chat_history # <<>>

\* the models each provider lists in bot.py
Listed(p) ==
    CASE p = "OpenAI" -> {"gpt-4o", "gpt-4o-mini", "gpt-3.5-turbo", "gpt-4-turbo"}
      [] p = "Google Gemini" -> {"gemini-2.5-flash-lite", "gemini-2.5-flash", "gemini-2.5-pro"}
      [] p = "Groq" -> {"llama-3.1-8b-instant", "llama-3.3-70b-versatile", "mixtral-8x7b-32768"}
      [] p = "Ollama" -> {"llama3.3", "gemma3", "mistral-small3.2", "phi4"}
      [] OTHER -> {}

\* C13: in bot.py the selected model is always one of the selected provider's
\* models, so the pair handed to get_llm_instance is a listed pair, and the
\* client it builds carries a model of that provider.
C13_ModelBelongsToProvider ==
    variant = "bot" =>
        /\ selected_model \in Listed(selected_provider)
        /\ (llm # None => llm.params.model \in Listed(selected_provider))

C13_Witness ==
    /\ variant = "bot"
    /\ pc = "stream"
    /\ selected_provider = "Ollama"
    /\ selected_model = "phi4"
    /\ llm.params.model = "phi4"

C15_ClientCarriesSelection ==
    (pc = "stream" /\ variant \in {"aibot", "bot"}) =>
        /\ llm.params.model = selected_model
        /\ llm.params.temperature = temperature
        /\ IF variant = "bot" /\ selected_provider = "Ollama"
           THEN ~llm.params.max_tokens.given
           ELSE /\ llm.params.max_tokens.given
                /\ llm.params.max_tokens.value = max_tokens

\* the turn of this execution ended with an error: the configuration error of
\* get_llm_instance or the failure of the outbound call
TurnFailed == IsTurn /\ errors # <<>>

\* the next submission is taken: its text is appended as a user message and
\* the execution goes on to build the client and call the model
NextSubmissionTaken ==
    ENABLED (/\ RunScript("Hello")
             /\ chat_history' = Append(chat_history, [role |-> "user", content |-> "Hello"])
             /\ pc' \in {"resolve", "call"})

\* C16: after a failed turn, in every variant, the session is at idle and the
\* next non-empty submission is accepted, appended as a user message and
\* dispatched (as long as the history has room for one more turn).
C16_ErrorsNotSticky ==
    TurnFailed =>
        /\ pc = "idle"
        /\ (Len(chat_history) + 2 <= MaxHist => NextSubmissionTaken)

\* a turn that was taken and dispatched after a failed turn, and failed too
C16_Witness ==
    /\ TurnFailed
    /\ pc = "idle"
    /\ turns_failed = 2
    /\ calls = 1
    /\ Len(chat_history) = 2
    /\ variant = "chatbot"

\* the execution is handling a submitted text
InTurn == pc \in {"resolve", "call", "stream", "invoke"}

\* C17: an execution whose chat input is empty appends nothing and issues no
\* outbound call; a turn is under way only for a non-empty text, whose user
\* message is in chat_history before the outbound call is issued, so the
\* history sent with a call is never empty.
C17_OnlyNonEmptyInputStartsTurn ==
    /\ user_prompt = "" =>
          /\ ~InTurn
          /\ calls = 0
          /\ event # "submit"
          /\ (event = "rerun" => chat_history = run_start)
    /\ (InTurn \/ calls > 0) =>
          /\ user_prompt # ""
          /\ Len(chat_history) >= Len(run_start) + 1
          /\ chat_history[Len(run_start) + 1] = [role |-> "user", content |-> user_prompt]
    /\ pc \in {"stream", "invoke"} =>
          /\ Len(messages) >= 2
          /\ messages[Len(messages)].role = "user"

C17_Witness ==
    /\ event = "rerun"
    /\ user_prompt = ""
    /\ chat_history # <<>>
    /\ chat_history = run_start
    /\ pc = "idle"

\* C18: every step other than the execution of a Clear click leaves the
\* history it found as a prefix of the history it leaves, and appends at most
\* one message: nothing stored is changed, moved or removed.
C18_AppendOnly ==
    [][event' # "clear" =>
          /\ Len(chat_history') \in {Len(chat_history), Len(chat_history) + 1}
          /\ \A i \in 1..Len(chat_history) : chat_history'[i] = chat_history[i]]_vars

\* a history grown over a failed and a completed turn
C18_Witness ==
    /\ pc = "idle"
    /\ Len(chat_history) = 3
    /\ turns_failed = 1
    /\ turns_ok = 1
    /\ chat_history[3].role = "assistant"

CountRole(h, r) == Cardinality({i \in 1..Len(h) : h[i].role = r})

\* C19: in every reachable state of every variant, failed turns and
\* configuration errors included, chat_history is empty or starts with a user
\* entry, every assistant entry directly follows a user entry, and there are
\* never more assistant entries than user entries.
C19_HistoryShape ==
    /\ chat_history # <<>> => chat_history[1].role = "user"
    /\ \A i \in 1..Len(chat_history) :
          chat_history[i].role = "assistant" =>
              (i > 1 /\ chat_history[i - 1].role = "user")
    /\ CountRole(chat_history, "assistant") <= CountRole(chat_history, "user")

\* two user entries in a row (a failed turn), then a stored reply
C19_Witness ==
    /\ Len(chat_history) = 3
    /\ chat_history[1].role = "user"
    /\ chat_history[2].role = "user"
    /\ chat_history[3].role = "assistant"
    /\ turns_failed = 1

\* C20: a step that changes the provider, the model, the temperature or the
\* max-tokens setting, and any execution without a submitted text and without
\* a Clear click, leaves chat_history as it was and issues no outbound call.
C20_ConfigAndRerunKeepHistory ==
    [][(config_vars' # config_vars \/ event' \in {"config", "rerun"}) =>
          /\ chat_history' = chat_history
          /\ calls' = 0
          /\ messages' = <<>>
          /\ pc' = "idle"]_vars

\* settings changed all round on a history that is still there
C20_Witness ==
    /\ event = "config"
    /\ variant = "bot"
    /\ selected_provider = "OpenAI"
    /\ temperature = 0
    /\ max_tokens = 100
    /\ Len(chat_history) = 2
    /\ calls = 0

====
